---- MODULE Spec2Model ----
(***************************************************************************)
(* HappyMe (src/script.js): the health metrics engine                      *)
(* (calculateHealthMetrics, getBMICategory), the weight projection of      *)
(* renderCharts, the diet plan of renderDietPlan, and the page around      *)
(* them: the DOMContentLoaded handler, handleFormSubmit with its delayed   *)
(* callback, saveToLocal / loadStoredData over localStorage, toggleTheme.  *)
(*                                                                         *)
(* JavaScript numbers are IEEE-754 doubles.  The arithmetic of the engine  *)
(* is modelled on doubles, correctly rounded (round to nearest, ties to    *)
(* even), over natural numbers of arbitrary size kept as limb sequences.   *)
(***************************************************************************)
EXTENDS Integers, Sequences, FiniteSets, TLC

(***************************************************************************)
(* Natural numbers of arbitrary size: little-endian sequences of limbs in  *)
(* 0 .. LimbBase-1 without high zero limbs; << >> is zero.                 *)
(***************************************************************************)
LimbBits == 15
LimbBase == 32768

RECURSIVE Pow2(_)
Pow2(n) == IF n = 0 THEN 1 ELSE 2 * Pow2(n - 1)

RECURSIVE BNorm(_)
BNorm(a) ==
    IF a = << >> THEN << >>
    ELSE IF a[Len(a)] = 0 THEN BNorm(SubSeq(a, 1, Len(a) - 1))
    ELSE a

RECURSIVE BFromNat(_)
BFromNat(n) == IF n = 0 THEN << >> ELSE <<n % LimbBase>> \o BFromNat(n \div LimbBase)

RECURSIVE BToNat(_)
BToNat(a) == IF a = << >> THEN 0 ELSE a[1] + LimbBase * BToNat(Tail(a))

\* -1, 0, 1 as a < b, a = b, a > b
RECURSIVE BCmpFrom(_, _, _)
BCmpFrom(a, b, i) ==
    IF i = 0 THEN 0
    ELSE IF a[i] < b[i] THEN -1
    ELSE IF a[i] > b[i] THEN 1
    ELSE BCmpFrom(a, b, i - 1)

BCmp(a, b) ==
    IF Len(a) < Len(b) THEN -1
    ELSE IF Len(a) > Len(b) THEN 1
    ELSE BCmpFrom(a, b, Len(a))

Limb(a, i) == IF i <= Len(a) THEN a[i] ELSE 0

RECURSIVE BAddFrom(_, _, _, _)
BAddFrom(a, b, i, carry) ==
    IF i > Len(a) /\ i > Len(b)
    THEN IF carry = 0 THEN << >> ELSE <<carry>>
    ELSE LET s == Limb(a, i) + Limb(b, i) + carry
         IN  <<s % LimbBase>> \o BAddFrom(a, b, i + 1, s \div LimbBase)

BAdd(a, b) == BAddFrom(a, b, 1, 0)

\* a - b for a >= b
RECURSIVE BSubFrom(_, _, _, _)
BSubFrom(a, b, i, borrow) ==
    IF i > Len(a) THEN << >>
    ELSE LET d == Limb(a, i) - Limb(b, i) - borrow
         IN  IF d < 0
             THEN <<d + LimbBase>> \o BSubFrom(a, b, i + 1, 1)
             ELSE <<d>> \o BSubFrom(a, b, i + 1, 0)

BSub(a, b) == BNorm(BSubFrom(a, b, 1, 0))

\* a * k for 0 <= k < LimbBase
RECURSIVE BMulSmallFrom(_, _, _, _)
BMulSmallFrom(a, k, i, carry) ==
    IF i > Len(a)
    THEN IF carry = 0 THEN << >> ELSE <<carry>>
    ELSE LET p == a[i] * k + carry
         IN  <<p % LimbBase>> \o BMulSmallFrom(a, k, i + 1, p \div LimbBase)

BMulSmall(a, k) == IF k = 0 THEN << >> ELSE BMulSmallFrom(a, k, 1, 0)

RECURSIVE BMulFrom(_, _, _)
BMulFrom(a, b, j) ==
    IF j > Len(b) THEN << >>
    ELSE LET rest == BMulFrom(a, b, j + 1)
         IN  BAdd(BMulSmall(a, b[j]), IF rest = << >> THEN << >> ELSE <<0>> \o rest)

BMul(a, b) == BMulFrom(a, b, 1)

\* floor(a / k) for 0 < k <= LimbBase, from the high limb down
RECURSIVE BDivSmallFrom(_, _, _, _)
BDivSmallFrom(a, k, i, rem) ==
    IF i = 0 THEN << >>
    ELSE LET cur == rem * LimbBase + a[i]
         IN  BDivSmallFrom(a, k, i - 1, cur % k) \o <<cur \div k>>

BDivSmall(a, k) == BNorm(BDivSmallFrom(a, k, Len(a), 0))

RECURSIVE Zeros(_)
Zeros(n) == IF n = 0 THEN << >> ELSE <<0>> \o Zeros(n - 1)

\* a * 2^n
BShl(a, n) ==
    IF a = << >> THEN << >>
    ELSE Zeros(n \div LimbBits) \o BMulSmall(a, Pow2(n % LimbBits))

\* floor(a / 2^n)
BShr(a, n) ==
    IF n \div LimbBits >= Len(a) THEN << >>
    ELSE BDivSmall(SubSeq(a, n \div LimbBits + 1, Len(a)), Pow2(n % LimbBits))

RECURSIVE BitLenNat(_)
BitLenNat(n) == IF n = 0 THEN 0 ELSE 1 + BitLenNat(n \div 2)

BBitLen(a) == IF a = << >> THEN 0 ELSE LimbBits * (Len(a) - 1) + BitLenNat(a[Len(a)])

BOdd(a) == a # << >> /\ a[1] % 2 = 1

\* LimbBits steps of shift and subtract: for r < d, the next limb
\* floor(r * LimbBase / d) of the quotient (digit, built up in acc) and the
\* remainder that is left
RECURSIVE BDivChunk(_, _, _, _)
BDivChunk(r, d, n, acc) ==
    IF n = 0 THEN [r |-> r, digit |-> acc]
    ELSE LET r2 == BMulSmall(r, 2)
         IN  IF BCmp(r2, d) >= 0
             THEN BDivChunk(BSub(r2, d), d, n - 1, 2 * acc + 1)
             ELSE BDivChunk(r2, d, n - 1, 2 * acc)

\* for r < d: the n limbs of floor(r * LimbBase^n / d), low limb first (high
\* zero limbs kept), and whether the division left a remainder
RECURSIVE BDivLimbs(_, _, _)
BDivLimbs(r, d, n) ==
    IF n = 0 THEN [q |-> << >>, inexact |-> r # << >>]
    ELSE LET c    == BDivChunk(r, d, LimbBits, 0)
             rest == BDivLimbs(c.r, d, n - 1)
         IN  [q |-> rest.q \o <<c.digit>>, inexact |-> rest.inexact]

(***************************************************************************)
(* JavaScript numbers.  A double is NaN, an infinity, or neg, m, e with    *)
(* value (-1)^neg * m * 2^e, where m = 0 (and e = 0, neg = FALSE) or m has *)
(* exactly MantBits bits.  Subnormals, overflow and the sign of zero are   *)
(* not modelled: no value of the engine comes near them, and no operation  *)
(* modelled here reads the sign of a zero.                                 *)
(***************************************************************************)
MantBits == 53
\* limbs of quotient computed below the leading bit: more than MantBits + 1 bits
QuotLimbs == 4

NaN == [k |-> "nan", neg |-> FALSE, m |-> << >>, e |-> 0]
Inf(neg) == [k |-> "inf", neg |-> neg, m |-> << >>, e |-> 0]
Zero == [k |-> "num", neg |-> FALSE, m |-> << >>, e |-> 0]

IsNum(x) == x.k = "num"
IsZero(x) == x.k = "num" /\ x.m = << >>

Num(neg, m, e) == [k |-> "num", neg |-> neg, m |-> m, e |-> e]

\* rounding may carry the mantissa into one more bit
RoundCarry(neg, m1, e) ==
    IF BBitLen(m1) > MantBits THEN Num(neg, BShr(m1, 1), e + 1) ELSE Num(neg, m1, e)

\* c compares the bits cut off with one half of the last bit kept
RoundsUp(c, sticky, q) == c > 0 \/ (c = 0 /\ (sticky \/ BOdd(q)))

\* q is M without its low s bits
RoundCut(neg, M, e, sticky, s, q) ==
    RoundCarry(neg,
               IF RoundsUp(BCmp(BSub(M, BShl(q, s)), BShl(<<1>>, s - 1)), sticky, q)
               THEN BAdd(q, <<1>>) ELSE q,
               e + s)

RoundBits(neg, M, e, sticky, L) ==
    IF L <= MantBits
    THEN Num(neg, BShl(M, MantBits - L), e - (MantBits - L))
    ELSE RoundCut(neg, M, e, sticky, L - MantBits, BShr(M, L - MantBits))

\* the double nearest to (-1)^neg * (M + f) * 2^e, where 0 <= f < 1 and
\* sticky says that f > 0; ties go to the even mantissa
RoundToDouble(neg, M, e, sticky) ==
    IF M = << >> THEN Zero ELSE RoundBits(neg, M, e, sticky, BBitLen(M))

\* the double of an integer (an int has fewer than MantBits bits)
FromNat(neg, M) == Num(neg, BShl(M, MantBits - BBitLen(M)), BBitLen(M) - MantBits)

FromInt(n) ==
    IF n = 0 THEN Zero
    ELSE IF n < 0 THEN FromNat(TRUE, BFromNat(-n))
    ELSE FromNat(FALSE, BFromNat(n))

\* x * y
FMul(x, y) ==
    IF x.k = "nan" \/ y.k = "nan" THEN NaN
    ELSE IF x.k = "inf" \/ y.k = "inf"
    THEN IF IsZero(x) \/ IsZero(y) THEN NaN ELSE Inf(x.neg # y.neg)
    ELSE IF IsZero(x) \/ IsZero(y) THEN Zero
    ELSE RoundToDouble(x.neg # y.neg, BMul(x.m, y.m), x.e + y.e, FALSE)

\* d: the quotient below its leading bit, which is first
FDivRound(neg, e, first, d) ==
    RoundToDouble(neg, BNorm(d.q \o <<IF first THEN 1 ELSE 0>>), e, d.inexact)

FDivFrom(neg, e, first, mx, my) ==
    FDivRound(neg, e, first, BDivLimbs(IF first THEN BSub(mx, my) ELSE mx, my, QuotLimbs))

\* x / y
FDiv(x, y) ==
    IF x.k = "nan" \/ y.k = "nan" THEN NaN
    ELSE IF x.k = "inf"
    THEN IF y.k = "inf" THEN NaN ELSE Inf(x.neg # y.neg)
    ELSE IF y.k = "inf" THEN Zero
    ELSE IF IsZero(y) THEN IF IsZero(x) THEN NaN ELSE Inf(x.neg)
    ELSE IF IsZero(x) THEN Zero
    ELSE FDivFrom(x.neg # y.neg, x.e - y.e - QuotLimbs * LimbBits,
                  BCmp(x.m, y.m) >= 0, x.m, y.m)

FNeg(x) ==
    IF x.k = "nan" \/ IsZero(x) THEN x
    ELSE [x EXCEPT !.neg = ~x.neg]

\* mx and my are the magnitudes on the common exponent e
FAddAligned(xneg, mx, yneg, my, e) ==
    RoundToDouble(IF xneg = yneg \/ BCmp(mx, my) >= 0 THEN xneg ELSE yneg,
                  IF xneg = yneg THEN BAdd(mx, my)
                  ELSE IF BCmp(mx, my) >= 0 THEN BSub(mx, my) ELSE BSub(my, mx),
                  e, FALSE)

FAddAt(x, y, e) == FAddAligned(x.neg, BShl(x.m, x.e - e), y.neg, BShl(y.m, y.e - e), e)

\* x + y
FAdd(x, y) ==
    IF x.k = "nan" \/ y.k = "nan" THEN NaN
    ELSE IF x.k = "inf"
    THEN IF y.k = "inf" /\ y.neg # x.neg THEN NaN ELSE x
    ELSE IF y.k = "inf" THEN y
    ELSE IF IsZero(x) THEN y
    ELSE IF IsZero(y) THEN x
    ELSE FAddAt(x, y, IF x.e < y.e THEN x.e ELSE y.e)

FSub(x, y) == FAdd(x, FNeg(y))

\* |x| < |y| for finite x and y: mantissas of one length compare by exponent
MagLess(x, y) ==
    IF IsZero(y) THEN FALSE
    ELSE IF IsZero(x) THEN TRUE
    ELSE x.e < y.e \/ (x.e = y.e /\ BCmp(x.m, y.m) < 0)

\* x < y, false when either is NaN
FLess(x, y) ==
    IF x.k = "nan" \/ y.k = "nan" THEN FALSE
    ELSE IF x.k = "inf" THEN x.neg /\ ~(y.k = "inf" /\ y.neg)
    ELSE IF y.k = "inf" THEN ~y.neg
    ELSE IF x.neg # y.neg THEN x.neg
    ELSE IF x.neg THEN MagLess(y, x) ELSE MagLess(x, y)

(***************************************************************************)
(* The numbers the page keeps (parseInt and Math.round results) are        *)
(* integers, NaN or an infinity: IntNum(n), NaNNum, InfNum(sign).          *)
(* null is what JSON.parse gives back for a number JSON cannot write.      *)
(***************************************************************************)
IntNum(n) == [k |-> "int", v |-> n]
NaNNum    == [k |-> "nan", v |-> 0]
InfNum(neg) == [k |-> "inf", v |-> IF neg THEN -1 ELSE 1]
Null      == [k |-> "null", v |-> 0]

ToDouble(n) ==
    IF n.k = "int" THEN FromInt(n.v)
    ELSE IF n.k = "inf" THEN Inf(n.v < 0)
    ELSE NaN

\* Math.round: floor(x + 1/2), computed exactly
MathRound(x) ==
    IF x.k = "nan" THEN NaNNum
    ELSE IF x.k = "inf" THEN InfNum(x.neg)
    ELSE IF IsZero(x) THEN IntNum(0)
    ELSE IF x.e >= 0
    THEN IntNum((IF x.neg THEN -1 ELSE 1) * BToNat(BShl(x.m, x.e)))
    ELSE LET t  == BShl(<<1>>, -x.e)
             m2 == BShl(x.m, 1)
         IN  IF ~x.neg
             THEN IntNum(BToNat(BShr(BAdd(m2, t), 1 - x.e)))
             ELSE IF BCmp(m2, t) <= 0 THEN IntNum(0)
             ELSE IntNum(-BToNat(BShr(BSub(BAdd(m2, t), <<1>>), 1 - x.e)))

(***************************************************************************)
(* Strings that are parsed or formatted are sequences of one-character     *)
(* strings, so that parseInt, parseFloat and toFixed do what they do.      *)
(***************************************************************************)
DigitChars == <<"0", "1", "2", "3", "4", "5", "6", "7", "8", "9">>

IsDigit(c) == \E i \in 1..10 : DigitChars[i] = c
DigitVal(c) == (CHOOSE i \in 1..10 : DigitChars[i] = c) - 1

RECURSIVE NatToStr(_)
NatToStr(n) ==
    IF n < 10 THEN <<DigitChars[n + 1]>>
    ELSE NatToStr(n \div 10) \o <<DigitChars[(n % 10) + 1]>>

IntToStr(n) == IF n < 0 THEN <<"-">> \o NatToStr(-n) ELSE NatToStr(n)

\* the leading digits of s from position i: their value, their count, and
\* the position after them
RECURSIVE ScanDigits(_, _, _, _)
ScanDigits(s, i, val, cnt) ==
    IF i <= Len(s) /\ IsDigit(s[i])
    THEN ScanDigits(s, i + 1, 10 * val + DigitVal(s[i]), cnt + 1)
    ELSE [val |-> val, cnt |-> cnt, next |-> i]

RECURSIVE Pow10(_)
Pow10(n) == IF n = 0 THEN 1 ELSE 10 * Pow10(n - 1)

HasSign(s) == Len(s) >= 1 /\ s[1] \in {"-", "+"}

\* parseInt(s): an optional sign and the leading decimal digits; NaN when
\* there is none.  (Leading white space and the 0x prefix are not modelled.)
ParseInt(s) ==
    LET start == IF HasSign(s) THEN 2 ELSE 1
        d     == ScanDigits(s, start, 0, 0)
    IN  IF d.cnt = 0 THEN NaNNum
        ELSE IntNum(IF HasSign(s) /\ s[1] = "-" THEN -d.val ELSE d.val)

\* parseFloat(s): an optional sign, digits, an optional point and digits;
\* the double nearest to that decimal; NaN when there is no digit.
\* (White space, exponents and the Infinity literal are not modelled.)
ParseFloat(s) ==
    LET start == IF HasSign(s) THEN 2 ELSE 1
        ip    == ScanDigits(s, start, 0, 0)
        point == ip.next <= Len(s) /\ s[ip.next] = "."
        fp    == IF point THEN ScanDigits(s, ip.next + 1, 0, 0)
                 ELSE [val |-> 0, cnt |-> 0, next |-> ip.next]
        mag   == IF fp.cnt = 0 THEN FromInt(ip.val)     \* an integer is exact
                 ELSE FDiv(FromInt(ip.val * Pow10(fp.cnt) + fp.val),
                           FromInt(Pow10(fp.cnt)))
    IN  IF ip.cnt = 0 /\ fp.cnt = 0 THEN NaN
        ELSE IF HasSign(s) /\ s[1] = "-" THEN FNeg(mag) ELSE mag

\* String(n) of a number the page keeps
NumToStr(n) ==
    IF n.k = "int" THEN IntToStr(n.v)
    ELSE IF n.k = "nan" THEN <<"N", "a", "N">>
    ELSE IF n.k = "null" THEN <<"n", "u", "l", "l">>
    ELSE (IF n.v < 0 THEN <<"-">> ELSE << >>) \o <<"I", "n", "f", "i", "n", "i", "t", "y">>

\* x.toFixed(1): the n with n / 10 nearest to |x|, the larger on a tie,
\* written with one decimal (|x| < 10^21)
ToFixed1(x) ==
    IF x.k = "nan" THEN <<"N", "a", "N">>
    ELSE IF x.k = "inf" THEN NumToStr(InfNum(x.neg))
    ELSE LET n == IF IsZero(x) THEN 0
                  ELSE IF x.e >= 0 THEN 10 * BToNat(BShl(x.m, x.e))
                  ELSE BToNat(BShr(BAdd(BMulSmall(x.m, 20), BShl(<<1>>, -x.e)), 1 - x.e))
         IN  (IF x.neg THEN <<"-">> ELSE << >>)
                 \o NatToStr(n \div 10) \o <<".", DigitChars[(n % 10) + 1]>>

(***************************************************************************)
(* HEALTH_DATA                                                             *)
(***************************************************************************)
BmiCategories ==
    [underweight |-> [label |-> "Underweight", color |-> "#60a5fa"],
     normal      |-> [label |-> "Healthy",     color |-> "#34d399"],
     overweight  |-> [label |-> "Overweight",  color |-> "#fbbf24"],
     obese       |-> [label |-> "Obese",       color |-> "#f87171"]]

Diets ==
    [p \in {"non-veg", "veg", "vegan"} |->
        CASE p = "non-veg" -> <<"Grilled Salmon with Asparagus", "Chicken Quinoa Bowl",
                                "Greek Yogurt & Berries">>
          [] p = "veg"     -> <<"Lentil Curry with Brown Rice", "Roasted Chickpea Salad",
                                "Cottage Cheese Stir-fry">>
          [] p = "vegan"   -> <<"Tofu Scramble", "Sweet Potato & Black Bean Tacos",
                                "Tempeh Buddha Bowl">>]

(***************************************************************************)
(* CORE LOGIC                                                              *)
(***************************************************************************)
\* the literals of the engine, as doubles (all of them exact)
D18_5 == FDiv(FromInt(37), FromInt(2))
D6_25 == FDiv(FromInt(25), FromInt(4))
Half  == FDiv(FromInt(1), FromInt(2))

getBMICategory(bmi) ==
    IF FLess(bmi, D18_5) THEN "underweight"
    ELSE IF FLess(bmi, FromInt(25)) THEN "normal"
    ELSE IF FLess(bmi, FromInt(30)) THEN "overweight"
    ELSE "obese"

Bmi(height, weight, heightM) == FDiv(weight, FMul(heightM, heightM))

Bmr(age, gender, height, weight) ==
    IF gender = "male"
    THEN FAdd(FSub(FAdd(FMul(FromInt(10), weight), FMul(D6_25, height)),
                   FMul(FromInt(5), age)), FromInt(5))
    ELSE FSub(FSub(FAdd(FMul(FromInt(10), weight), FMul(D6_25, height)),
                   FMul(FromInt(5), age)), FromInt(161))

IfLose(calories, goal) == IF goal = "lose" THEN FSub(calories, FromInt(500)) ELSE calories
IfGain(calories, goal) == IF goal = "gain" THEN FAdd(calories, FromInt(500)) ELSE calories

Result(bmi, calories) ==
    [bmi      |-> ToFixed1(bmi),
     calories |-> MathRound(calories),
     category |-> getBMICategory(bmi)]

\* data: [age, gender, height, weight, activity, goal, preference], the
\* numbers as parseInt left them and activity the string of the form.  The
\* function has no throw: it returns for every data.
calculateHealthMetrics(data) ==
    Result(Bmi(ToDouble(data.height), ToDouble(data.weight),
               FDiv(ToDouble(data.height), FromInt(100))),
           IfGain(IfLose(FMul(Bmr(ToDouble(data.age), data.gender, ToDouble(data.height),
                                  ToDouble(data.weight)),
                              ParseFloat(data.activity)),
                         data.goal),
                  data.goal))

(***************************************************************************)
(* renderCharts, lines 179-188: the weight roadmap.  weight is the number  *)
(* of the inputs (or null, out of a stored report).                        *)
(***************************************************************************)
RoadmapLabels == <<"Week 1", "Week 2", "Week 3", "Week 4">>

\* a loop that pushes the weight before the change is added: its first
\* point is the starting weight
RECURSIVE RoadmapFromStart(_, _, _, _)
RoadmapFromStart(i, currentWeight, change, weightData) ==
    IF i < Len(RoadmapLabels)
    THEN RoadmapFromStart(i + 1, FAdd(currentWeight, change), change,
                          Append(weightData, ToFixed1(currentWeight)))
    ELSE weightData

RECURSIVE RoadmapLoop(_, _, _, _)
RoadmapLoop(i, currentWeight, change, weightData) ==
    IF i < Len(RoadmapLabels)
    THEN LET next == FAdd(currentWeight, change)
         IN  RoadmapLoop(i + 1, next, change, Append(weightData, ToFixed1(next)))
    ELSE weightData

WeightRoadmap(weight, goal) ==
    RoadmapLoop(0, ParseFloat(NumToStr(weight)),
                IF goal = "lose" THEN FNeg(Half) ELSE IF goal = "gain" THEN Half ELSE Zero,
                << >>)

(***************************************************************************)
(* renderDietPlan: items.forEach throws a TypeError when the preference    *)
(* is no key of HEALTH_DATA.diets (items is undefined), before innerHTML   *)
(* is assigned.  The html is kept as what it is made of.                   *)
(***************************************************************************)
NoHtml == [pref |-> "", goal |-> "", meals |-> << >>, target |-> ""]

renderDietPlan(pref, goal) ==
    IF pref \notin DOMAIN Diets
    THEN [error |-> "TypeError", html |-> NoHtml]
    ELSE [error |-> "none",
          html  |-> [pref |-> pref, goal |-> goal, meals |-> Diets[pref],
                     target |-> IF goal = "maintain" THEN "0kg" ELSE "0.5kg"]]

(***************************************************************************)
(* The page.                                                               *)
(***************************************************************************)
VARIABLES
    localStorage,   \* [lastHealthReport, theme]: the two items the page uses
    page,           \* "loading" until the DOMContentLoaded handler has run,
                    \* then "ready", or "failed" when the handler threw
    listeners,      \* the handlers addEventListener has registered
    form,           \* the values of the form's fields
    btn,            \* #analyzeBtn with its .btn-text and .loader
    view,           \* #resultsArea and the elements updateUI writes
    charts,         \* the globals bmiChart and weightChart
    dataTheme,      \* the data-theme attribute of the document
    timers,         \* the callbacks setTimeout holds, in firing order
    uncaught,       \* the exceptions no handler caught, since the page loaded
    lastSubmit,     \* history: the latest submission, its inputs and results
    savedPair,      \* history: the pair saveToLocal last wrote into the slot
    loaded,         \* history: the pair loadStoredData read out of the slot
    call            \* one call of an engine function: its argument and outcome

vars == <<localStorage, page, listeners, form, btn, view, charts, dataTheme,
          timers, uncaught, lastSubmit, savedPair, loaded, call>>

pageVars == <<localStorage, page, listeners, form, btn, view, charts, dataTheme,
              timers, uncaught, lastSubmit, savedPair, loaded>>

\* the most callbacks the model lets wait at once
MaxPending == 2

(***************************************************************************)
(* JSON.  A number is written as its decimal text, NaN and the infinities  *)
(* as null; a string as itself.  The item of localStorage is no item, a    *)
(* text that is not JSON, or the text of a JSON value.                     *)
(***************************************************************************)
JNull      == [j |-> "null", n |-> 0]
JNumber(n) == [j |-> "number", n |-> n]
JString(s) == [j |-> "string", s |-> s]

NoItem   == [t |-> "none"]
NotJson  == [t |-> "text"]
EmptyObj == [t |-> "json", v |-> [keys |-> 0]]
JsonText(v) == [t |-> "json", v |-> v]

StringifyNum(n) == IF n.k = "int" THEN JNumber(n.v) ELSE JNull
ParseNum(j) == IF j.j = "number" THEN IntNum(j.n) ELSE Null

JSONStringify(report) ==
    JsonText(
      [inputs  |-> [age        |-> StringifyNum(report.inputs.age),
                    gender     |-> JString(report.inputs.gender),
                    height     |-> StringifyNum(report.inputs.height),
                    weight     |-> StringifyNum(report.inputs.weight),
                    activity   |-> JString(report.inputs.activity),
                    goal       |-> JString(report.inputs.goal),
                    preference |-> JString(report.inputs.preference)],
       results |-> [bmi      |-> JString(report.results.bmi),
                    calories |-> StringifyNum(report.results.calories),
                    category |-> JString(report.results.category)],
       date    |-> JString(report.date)])

\* JSON.parse of the text of a report
JSONParse(text) ==
    [inputs  |-> [age        |-> ParseNum(text.v.inputs.age),
                  gender     |-> text.v.inputs.gender.s,
                  height     |-> ParseNum(text.v.inputs.height),
                  weight     |-> ParseNum(text.v.inputs.weight),
                  activity   |-> text.v.inputs.activity.s,
                  goal       |-> text.v.inputs.goal.s,
                  preference |-> text.v.inputs.preference.s],
     results |-> [bmi      |-> text.v.results.bmi.s,
                  calories |-> ParseNum(text.v.results.calories),
                  category |-> text.v.results.category.s],
     date    |-> text.v.date.s]

\* new Date().toLocaleDateString(): the day of the run, and an earlier day
Today     == "11/5/2026"
Yesterday == "11/4/2026"

(***************************************************************************)
(* The document as the HTML gives it (the HTML is not part of the          *)
(* sources; the code shows #resultsArea to start hidden).                  *)
(***************************************************************************)
BlankForm ==
    [age |-> << >>, gender |-> "", height |-> << >>, weight |-> << >>,
     activity |-> << >>, goal |-> "", preference |-> ""]

InitialBtn == [disabled |-> FALSE, textOpacity |-> "", loaderDisplay |-> ""]

InitialView ==
    [hidden |-> TRUE, bmiValue |-> << >>, calorieValue |-> Null,
     bmiStatus |-> [label |-> "", color |-> ""], dietSummary |-> NoHtml]

NoCharts == [bmiChart    |-> [made |-> FALSE, data |-> << >>],
             weightChart |-> [made |-> FALSE, data |-> << >>]]

AllListeners == {"submit", "pdf", "theme"}

\* what the user may type into the form: the example of the documentation,
\* a form with no age, and a form with a preference that is no diet
Field(a, g, h, w, act, goal, pref) ==
    [age |-> a, gender |-> g, height |-> h, weight |-> w, activity |-> act,
     goal |-> goal, preference |-> pref]

FormChoices ==
    { Field(<<"3", "0">>, "male", <<"1", "8", "0">>, <<"8", "0">>,
            <<"1", ".", "5", "5">>, "maintain", "non-veg"),
      Field(<< >>, "female", <<"1", "7", "0">>, <<"7", "0">>,
            <<"1", ".", "3", "7", "5">>, "lose", "vegan"),
      Field(<<"4", "0">>, "male", <<"1", "7", "5">>, <<"9", "0">>,
            <<"1", ".", "9">>, "gain", "keto") }

(***************************************************************************)
(* UI CONTROLLERS                                                          *)
(***************************************************************************)
\* renderCharts: both charts are made anew (an old one is destroyed first)
renderCharts(bmi, calories, weight, goal) ==
    [bmiChart    |-> [made |-> TRUE, data |-> bmi],
     weightChart |-> [made |-> TRUE, data |-> WeightRoadmap(weight, goal)]]

\* the end of updateUI: d is what renderDietPlan did
UpdateDiet(v, c, d) ==
    IF d.error # "none"
    THEN [error |-> d.error, view |-> v, charts |-> c]
    ELSE [error |-> "none", view |-> [v EXCEPT !.dietSummary = d.html], charts |-> c]

\* updateUI, statement by statement up to the first that throws: the error
\* it threw, and the view and the charts as it leaves them
updateUI(results, inputs, v, c) ==
    IF results.calories.k = "null"              \* null.toLocaleString()
    THEN [error |-> "TypeError", view |-> [v EXCEPT !.bmiValue = results.bmi],
          charts |-> c]
    ELSE IF results.category \notin DOMAIN BmiCategories    \* cat.label of undefined
    THEN [error |-> "TypeError",
          view  |-> [v EXCEPT !.bmiValue = results.bmi,
                              !.calorieValue = results.calories],
          charts |-> c]
    ELSE UpdateDiet([v EXCEPT !.bmiValue = results.bmi,
                              !.calorieValue = results.calories,
                              !.bmiStatus = BmiCategories[results.category]],
                    renderCharts(results.bmi, results.calories, inputs.weight,
                                 inputs.goal),
                    renderDietPlan(inputs.preference, inputs.goal))

saveToLocal(inputs, results, date) ==
    JSONStringify([inputs |-> inputs, results |-> results, date |-> date])

\* el.value = inputs[key]: a number becomes its text, null the empty text
FieldText(n) == IF n.k = "null" THEN << >> ELSE NumToStr(n)

Prefill(inputs) ==
    [age |-> FieldText(inputs.age), gender |-> inputs.gender,
     height |-> FieldText(inputs.height), weight |-> FieldText(inputs.weight),
     activity |-> inputs.activity, goal |-> inputs.goal,
     preference |-> inputs.preference]

\* the end of loadStoredData: u is what updateUI did
ShowStored(report, u) ==
    [error  |-> u.error,
     pair   |-> <<[inputs |-> report.inputs, results |-> report.results]>>,
     form   |-> Prefill(report.inputs),
     view   |-> IF u.error = "none" THEN [u.view EXCEPT !.hidden = FALSE] ELSE u.view,
     charts |-> u.charts]

LoadReport(report, v, c) == ShowStored(report, updateUI(report.results, report.inputs, v, c))

\* a loadStoredData that parses whatever getItem returned: with no item,
\* JSON.parse(null) is null, and taking inputs out of null throws
loadUnguarded(saved, f, v, c) ==
    IF saved = NotJson
    THEN [error |-> "SyntaxError", pair |-> << >>, form |-> f, view |-> v, charts |-> c]
    ELSE IF saved \in {NoItem, EmptyObj}
    THEN [error |-> "TypeError", pair |-> << >>, form |-> f, view |-> v, charts |-> c]
    ELSE LoadReport(JSONParse(saved), v, c)

\* loadStoredData: the error it threw, the pair it parsed, and the form, the
\* view and the charts as it leaves them
loadStoredData(saved, f, v, c) ==
    IF saved = NoItem                       \* if (saved)
    THEN [error |-> "none", pair |-> << >>, form |-> f, view |-> v, charts |-> c]
    ELSE IF saved = NotJson                 \* JSON.parse throws
    THEN [error |-> "SyntaxError", pair |-> << >>, form |-> f, view |-> v, charts |-> c]
    ELSE IF saved = EmptyObj                \* Object.keys(undefined) throws
    THEN [error |-> "TypeError", pair |-> << >>, form |-> f, view |-> v, charts |-> c]
    ELSE LoadReport(JSONParse(saved), v, c)

initTheme(stored) == IF stored = "none" THEN "light" ELSE stored

\* the DOMContentLoaded handler: initTheme, loadStoredData, and then, unless
\* loadStoredData threw, the three addEventListener calls
DOMContentLoaded ==
    /\ page = "loading"
    /\ \E l \in {loadStoredData(localStorage.lastHealthReport, form, view, charts)} :
           /\ dataTheme' = initTheme(localStorage.theme)
           /\ form' = l.form
           /\ view' = l.view
           /\ charts' = l.charts
           /\ loaded' = l.pair
           /\ IF l.error = "none"
              THEN /\ listeners' = AllListeners
                   /\ page' = "ready"
                   /\ uncaught' = uncaught
              ELSE /\ listeners' = listeners
                   /\ page' = "failed"
                   /\ uncaught' = uncaught \cup {[in |-> "DOMContentLoaded", error |-> l.error]}
    /\ UNCHANGED <<localStorage, btn, timers, lastSubmit, savedPair, call>>

ReadForm(f) ==
    [age |-> ParseInt(f.age), gender |-> f.gender, height |-> ParseInt(f.height),
     weight |-> ParseInt(f.weight), activity |-> f.activity, goal |-> f.goal,
     preference |-> f.preference]

\* the results of every form a run meets, worked out once
Computed == [f \in FormChoices \cup {BlankForm} |-> calculateHealthMetrics(ReadForm(f))]

Calculate(f) ==
    IF f \in DOMAIN Computed THEN Computed[f] ELSE calculateHealthMetrics(ReadForm(f))

\* the user leaves the form as it is or fills it in, and submits it:
\* handleFormSubmit up to its return (it has no await, and nothing in it
\* throws).  The handler does not look at the button: a submit event that
\* comes while a callback waits is handled like any other.
handleFormSubmit ==
    /\ "submit" \in listeners
    /\ Len(timers) < MaxPending
    /\ \E f \in FormChoices \cup {form} :
           /\ form' = f
           /\ timers' = Append(timers, [results |-> Calculate(f), formData |-> ReadForm(f)])
           /\ lastSubmit' = <<[inputs |-> ReadForm(f), results |-> Calculate(f)]>>
    /\ btn' = [disabled |-> TRUE, textOpacity |-> "0", loaderDisplay |-> "block"]
    /\ UNCHANGED <<localStorage, page, listeners, view, charts, dataTheme,
                   uncaught, savedPair, loaded, call>>

\* the callback of setTimeout: the timers all wait 800 ms, so they fire in the
\* order they were set
TimerFires ==
    /\ timers # << >>
    /\ \E cb \in {Head(timers)} :
       \E u \in {updateUI(cb.results, cb.formData, view, charts)} :
           /\ timers' = Tail(timers)
           /\ charts' = u.charts
           /\ IF u.error # "none"
              THEN /\ view' = u.view
                   /\ uncaught' = uncaught \cup {[in |-> "setTimeout", error |-> u.error]}
                   /\ UNCHANGED <<localStorage, btn, savedPair>>
              ELSE /\ localStorage' = [localStorage EXCEPT !.lastHealthReport =
                                          saveToLocal(cb.formData, cb.results, Today)]
                   /\ savedPair' = <<[inputs |-> cb.formData, results |-> cb.results]>>
                   /\ btn' = [disabled |-> FALSE, textOpacity |-> "1", loaderDisplay |-> "none"]
                   /\ view' = [u.view EXCEPT !.hidden = FALSE]
                   /\ uncaught' = uncaught
    /\ UNCHANGED <<page, listeners, form, dataTheme, lastSubmit, loaded, call>>

toggleTheme ==
    /\ "theme" \in listeners
    /\ \E next \in {IF dataTheme = "light" THEN "dark" ELSE "light"} :
           /\ dataTheme' = next
           /\ localStorage' = [localStorage EXCEPT !.theme = next]
    /\ UNCHANGED <<page, listeners, form, btn, view, charts, timers, uncaught,
                   lastSubmit, savedPair, loaded, call>>

\* the user loads the page again: the document and the globals start over,
\* the waiting callbacks are dropped, localStorage stays
Reload ==
    /\ page # "loading"
    /\ page' = "loading"
    /\ listeners' = {}
    /\ form' = BlankForm
    /\ btn' = InitialBtn
    /\ view' = InitialView
    /\ charts' = NoCharts
    /\ dataTheme' = ""
    /\ timers' = << >>
    /\ uncaught' = {}
    /\ loaded' = << >>
    /\ lastSubmit' = IF timers = << >> THEN lastSubmit ELSE << >>
    /\ UNCHANGED <<localStorage, savedPair, call>>

\* a call of an engine function: the data it is given, and once it is done
\* the error it threw and what it returned or wrote
NoResult == [bmi |-> << >>, calories |-> Null, category |-> ""]

NoCall == [fn |-> "none", arg |-> ReadForm(BlankForm), done |-> FALSE,
           error |-> "none", results |-> NoResult, weightData |-> << >>,
           html |-> NoHtml]

\* what the item may hold when the page is first opened: nothing, a text
\* that is no JSON, a JSON value that is no report, or a report of an
\* earlier day
StoredReports ==
    {NoItem, NotJson, EmptyObj}
        \cup {saveToLocal(ReadForm(f), Calculate(f), Yesterday) :
                f \in {g \in FormChoices : g.preference \in DOMAIN Diets}}

FreshPage ==
    /\ page = "loading"
    /\ listeners = {}
    /\ form = BlankForm
    /\ btn = InitialBtn
    /\ view = InitialView
    /\ charts = NoCharts
    /\ dataTheme = ""
    /\ timers = << >>
    /\ uncaught = {}
    /\ lastSubmit = << >>
    /\ savedPair = << >>
    /\ loaded = << >>

Init ==
    /\ localStorage \in [lastHealthReport : StoredReports, theme : {"none", "dark"}]
    /\ FreshPage
    /\ call = NoCall

Next ==
    \/ DOMContentLoaded
    \/ handleFormSubmit
    \/ TimerFires
    \/ toggleTheme
    \/ Reload

Spec == Init /\ [][Next]_vars

(***************************************************************************)
(* The engine functions on their own: one call of calculateHealthMetrics,  *)
(* of the roadmap of renderCharts or of renderDietPlan, on data drawn from *)
(* the sets below.  The page stays as it is before it is loaded.           *)
(***************************************************************************)
\* the largest starting weight of a roadmap
MaxStartWeight == 100

Goals   == {"lose", "maintain", "gain"}
Genders == {"male", "female"}
Ages    == {0, 30, 37}
Heights == {0, 160, 170, 180}
Weights == {-5, 40, 64, 80}
Activities  == {<<"1", ".", "4">>, <<"1", ".", "5", "5">>}
Preferences == {"non-veg", "veg", "vegan", "keto", ""}

Data(age, gender, height, weight, activity, goal, preference) ==
    [age |-> age, gender |-> gender, height |-> height, weight |-> weight,
     activity |-> activity, goal |-> goal, preference |-> preference]

MetricsData ==
    {Data(IntNum(a), g, IntNum(h), IntNum(w), act, goal, "veg") :
        a \in Ages, g \in Genders, h \in Heights, w \in Weights,
        act \in Activities, goal \in Goals}

RoadmapData ==
    {Data(IntNum(30), "male", IntNum(180), w, <<"1", ".", "5", "5">>, goal, "veg") :
        w \in {IntNum(n) : n \in -2..MaxStartWeight} \cup {NaNNum, Null},
        goal \in Goals}

DietData ==
    {Data(IntNum(30), "male", IntNum(180), IntNum(80), <<"1", ".", "5", "5">>, goal, pref) :
        goal \in Goals, pref \in Preferences}

CallOf(fn, data) == [NoCall EXCEPT !.fn = fn, !.arg = data]

InitFn ==
    /\ localStorage = [lastHealthReport |-> NoItem, theme |-> "none"]
    /\ FreshPage
    /\ call \in {CallOf("calculateHealthMetrics", d) : d \in MetricsData}
                  \cup {CallOf("renderCharts", d) : d \in RoadmapData}
                  \cup {CallOf("renderDietPlan", d) : d \in DietData}

\* calculateHealthMetrics has no throw, and no operation in it throws
CallMetrics ==
    /\ call.fn = "calculateHealthMetrics"
    /\ ~call.done
    /\ call' = [call EXCEPT !.done = TRUE,
                            !.results = calculateHealthMetrics(call.arg)]
    /\ UNCHANGED pageVars

CallRoadmap ==
    /\ call.fn = "renderCharts"
    /\ ~call.done
    /\ call' = [call EXCEPT !.done = TRUE,
                            !.weightData = WeightRoadmap(call.arg.weight, call.arg.goal)]
    /\ UNCHANGED pageVars

CallDietPlan ==
    /\ call.fn = "renderDietPlan"
    /\ ~call.done
    /\ \E d \in {renderDietPlan(call.arg.preference, call.arg.goal)} :
           call' = [call EXCEPT !.done = TRUE, !.error = d.error, !.html = d.html]
    /\ UNCHANGED pageVars

NextFn ==
    \/ CallMetrics
    \/ CallRoadmap
    \/ CallDietPlan

SpecFn == InitFn /\ [][NextFn]_vars

(***************************************************************************)
(* What the documentation asks of the engine's input, and the quantities   *)
(* it defines, in exact integer arithmetic.                                *)
(***************************************************************************)
ValidInput(data) ==
    /\ data.age.k = "int" /\ data.age.v > 0 /\ data.age.v < 150
    /\ data.height.k = "int" /\ data.height.v > 0
    /\ data.weight.k = "int" /\ data.weight.v > 0
    /\ data.gender \in Genders
    /\ data.goal \in Goals

\* the class of the exact BMI  w / (h / 100)^2  of h cm and w kg
ExactCategory(h, w) ==
    IF 20000 * w < 37 * h * h THEN "underweight"
    ELSE IF 10000 * w < 25 * h * h THEN "normal"
    ELSE IF 10000 * w < 30 * h * h THEN "overweight"
    ELSE "obese"

\* t tenths, written with one decimal
OneDecimal(t) ==
    IF t < 0 THEN <<"-">> \o NatToStr((-t) \div 10) \o <<".", DigitChars[((-t) % 10) + 1]>>
    ELSE NatToStr(t \div 10) \o <<".", DigitChars[(t % 10) + 1]>>

\* the weekly change of a goal, in tenths of a kilogram
DeltaTenths(goal) == IF goal = "lose" THEN -5 ELSE IF goal = "gain" THEN 5 ELSE 0

MetricsDone == call.fn = "calculateHealthMetrics" /\ call.done
RoadmapDone == call.fn = "renderCharts" /\ call.done
DietDone    == call.fn = "renderDietPlan" /\ call.done

(***************************************************************************)
(* The claims                                                              *)
(***************************************************************************)

\* C1: calculateHealthMetrics, given a height or a weight that is not
\* positive or an age that is not in 1..149, fails with InvalidInputError
\* and returns no result.
C1_InvalidInputIsRejected ==
    (MetricsDone /\ ~ValidInput(call.arg))
        => (call.error = "InvalidInputError" /\ call.results = NoResult)

\* C2: for a valid input the category calculateHealthMetrics returns is
\* the class of the exact BMI, with 18.5 normal, 25 overweight and 30 obese.
C2_CategoryOfExactBmi ==
    (MetricsDone /\ ValidInput(call.arg))
        => call.results.category = ExactCategory(call.arg.height.v, call.arg.weight.v)

\* C3: for a valid input with the goal lose (gain), the calorie target is
\* the target of the same input with the goal maintain, less (plus) 500.
C3_GoalShiftsTargetBy500 ==
    (MetricsDone /\ ValidInput(call.arg) /\ call.arg.goal # "maintain")
        => call.results.calories =
             IntNum(calculateHealthMetrics([call.arg EXCEPT !.goal = "maintain"]).calories.v
                      + (IF call.arg.goal = "lose" THEN -500 ELSE 500))

\* C4: the roadmap of a positive starting weight w has exactly four points,
\* and its i-th point is w + i * delta written with one decimal, delta
\* being -0.5 for lose, 0.5 for gain and 0 for maintain; the starting
\* weight itself is no point of it.
C4_RoadmapPoints ==
    (RoadmapDone /\ call.arg.weight.k = "int" /\ call.arg.weight.v > 0)
        => /\ Len(call.weightData) = 4
           /\ \A i \in 1..4 :
                call.weightData[i] =
                    OneDecimal(10 * call.arg.weight.v + i * DeltaTenths(call.arg.goal))

\* the roadmaps of 80 kg of the documentation: lose and maintain
C4_Witness ==
    /\ RoadmapDone
    /\ call.arg.weight = IntNum(80)
    /\ \/ /\ call.arg.goal = "lose"
          /\ call.weightData = << <<"7", "9", ".", "5">>, <<"7", "9", ".", "0">>,
                                  <<"7", "8", ".", "5">>, <<"7", "8", ".", "0">> >>
       \/ /\ call.arg.goal = "maintain"
          /\ call.weightData = << <<"8", "0", ".", "0">>, <<"8", "0", ".", "0">>,
                                  <<"8", "0", ".", "0">>, <<"8", "0", ".", "0">> >>

\* C5: renderDietPlan, given a preference that is none of non-veg, veg and
\* vegan, fails with UnknownPreferenceError, whatever the goal, and writes
\* no diet plan.
C5_UnknownPreferenceIsRejected ==
    (DietDone /\ call.arg.preference \notin DOMAIN Diets)
        => (call.error = "UnknownPreferenceError" /\ call.html = NoHtml)

\* C6: once every callback of the submissions has run, the item holds the
\* inputs of the latest submission with the results computed for them.
C6_LastWriteWins ==
    (timers = << >> /\ lastSubmit # << >>)
        => localStorage.lastHealthReport =
             saveToLocal(lastSubmit[1].inputs, lastSubmit[1].results, Today)

\* C7: the pair loadStoredData reads out of the item is, field for field,
\* the pair saveToLocal wrote into it.
C7_RoundTrip ==
    [][(page = "loading" /\ page' # "loading" /\ savedPair # << >> /\ loaded' # << >>)
          => loaded' = savedPair]_vars

\* C8: when the page starts with no item stored, the handler ends without
\* an error, leaves the results hidden and the document untouched, and
\* registers the submit, pdf and theme handlers.
C8_StartupWithEmptySlot ==
    [][(page = "loading" /\ page' # "loading" /\ localStorage.lastHealthReport = NoItem)
          => /\ page' = "ready"
             /\ uncaught' = {}
             /\ loaded' = << >>
             /\ view' = InitialView
             /\ charts' = NoCharts
             /\ form' = BlankForm
             /\ listeners' = AllListeners]_vars

C8_Witness ==
    /\ page = "ready"
    /\ localStorage.lastHealthReport = NoItem
    /\ listeners = AllListeners
    /\ view.hidden
    /\ lastSubmit = << >>

\* C9: when the page starts with an item that is no report, nothing of it
\* is shown, the failure is not left uncaught, and the submit handler is
\* registered all the same.
C9_StartupWithMalformedSlot ==
    (page # "loading" /\ localStorage.lastHealthReport \in {NotJson, EmptyObj})
        => /\ "submit" \in listeners
           /\ view.hidden
           /\ uncaught = {}

\* C10: the analyze button is disabled exactly while a callback that
\* handleFormSubmit has scheduled has not yet run.
C10_DisabledIffPending ==
    btn.disabled <=> (timers # << >>)

====
